---- MODULE Spec2Model ----
(***************************************************************************)
(* A model of edx_dl/edx_dl.py: the Unit extractor                         *)
(* (extract_units_from_html), the concurrent extraction orchestrator       *)
(* (extract_all_units), the deduplicator (remove_repeated_video_urls), the *)
(* download orchestrator (download) and the part of main that wires them   *)
(* together, from parse_courses on.                                        *)
(*                                                                         *)
(* Strings.  A Python string is modelled as a sequence of fragments, each  *)
(* fragment a TLA+ string; concatenation is \o.  Where the code slices a   *)
(* string by character ([-11:], [:11]) the sliced part is a sequence of    *)
(* one-character fragments, so that its length is the Python length.       *)
(* Python's None is the one-fragment sequence None, which no string of the *)
(* program equals.  A dict is a sequence of [key, value] entries in        *)
(* insertion order (the iteration order of a dict since Python 3.7).       *)
(***************************************************************************)
EXTENDS Integers, Sequences, FiniteSets, TLC

VARIABLES
    pc,                 \* position of the running function / of main
    page,               \* the page given to extract_units_from_html
    outcome,            \* what extract_units_from_html produced
    args,               \* the parsed command line
    available_courses,  \* main: the started courses of the dashboard
    site,               \* the courseware of each course on the server
    selected_courses,   \* main: the result of parse_courses
    selections,         \* dict Course -> [Section]
    all_urls,           \* main: the SubSection URLs submitted for extraction
    tasks,              \* extract_all_units: one task per submitted URL
    all_units,          \* dict SubSection URL -> [Unit]
    filtered_units,     \* the result of remove_repeated_video_urls
    dl_units,           \* download: its parameter all_units
    dl,                 \* download: the loop indices
    counter,            \* download: the local counter
    handed,             \* the calls of download_unit made so far
    exit_code,          \* <<>> while the process runs, <<n>> once it exited with n
    exc,                \* the exception that ended the function or process, or None
    remote,             \* the server: dict URL -> the answers it can give for it
    fs,                 \* the names of the files of the target directory
    subtitles           \* _download_subtitles: its frame, its log and its writes

vars == <<pc, page, outcome, args, available_courses, site, selected_courses,
          selections, all_urls,
          tasks, all_units, filtered_units, dl_units, dl, counter, handed,
          exit_code, exc, remote, fs, subtitles>>

extractVars == <<page, outcome>>
inputVars == <<args, available_courses, site, selected_courses>>
poolVars == <<all_urls, tasks>>
downloadVars == <<dl_units, dl, counter, handed>>
subsVars == <<fs, subtitles>>

(***************************************************************************)
(* Program constants                                                       *)
(***************************************************************************)
YOUTUBE_VIDEO_ID_LENGTH == 11

BASE_URL == "https://courses.edx.org"

YOUTUBE_WATCH == "https://youtube.com/watch?v="

None == <<"None">>

\* the state of the local name video_id before its first assignment
Unbound == <<"Unbound">>

(***************************************************************************)
(* Python helpers                                                          *)
(***************************************************************************)
Range(s) == {s[i] : i \in DOMAIN s}

\* s[-n:]
LastChars(s, n) == IF Len(s) <= n THEN s ELSE SubSeq(s, Len(s) - n + 1, Len(s))

\* s[:n]
FirstChars(s, n) == IF Len(s) <= n THEN s ELSE SubSeq(s, 1, n)

\* n copies of the character c
Rep(c, n) == [i \in 1..n |-> c]

\* list(set(xs)): every element of xs once, in the iteration order of a set of
\* strings, which depends on the strings' hashes (randomised per process) and
\* is therefore any order.
ListOfSet(xs) ==
    LET S == Range(xs)
    IN  {s \in [1..Cardinality(S) -> S] : Range(s) = S}

(***************************************************************************)
(* Unit extractor                                                          *)
(*                                                                         *)
(* A page is what the module's regular expressions find in it:             *)
(*   blocks  the matches of re_units, in document order; of each block     *)
(*     streams  None when the block has no data-streams attribute, else    *)
(*              the characters that follow the speed marker 1.0[0]*: up to *)
(*              the end of the line                                        *)
(*     sub      None, or group(1) of re_sub_template_url                   *)
(*     avail    None, or group(1) of re_available_subs_url                 *)
(*     mp4      re_mp4_urls.findall(block), in document order              *)
(*     pdf      re_pdf_urls.findall(block), in document order              *)
(*   embeds  re_extra_youtube.findall(page): the captured identifiers      *)
(***************************************************************************)
Unit(video, avail, sub, mp4, pdf) ==
    [video_youtube_url |-> video, available_subs_url |-> avail,
     sub_template_url |-> sub, mp4_urls |-> mp4, pdf_urls |-> pdf]

\* re_video_youtube_url.search(unit_html): the pattern ends in .{11}, so it
\* matches only when 11 characters follow the marker; group(0) is the
\* attribute, the marker and those 11 characters.
re_video_youtube_url_search(b) ==
    IF b.streams = None \/ Len(b.streams) < 11
    THEN None
    ELSE <<"data-streams=\"", "1.00:">> \o SubSeq(b.streams, 1, 11)

\* lines 395-398: a relative href is qualified with BASE_URL
pdf_url(url) == IF Len(url) > 0 /\ url[1] = "http" THEN url ELSE <<BASE_URL>> \o url

pdf_urls_of(b) == [i \in DOMAIN b.pdf |-> pdf_url(b.pdf[i])]

\* line 392
make_sub_template_url(path, video_id) ==
    <<BASE_URL>> \o path \o <<"/%s?videoId=">> \o video_id

\* line 391
make_available_subs_url(path) == <<BASE_URL>> \o path

\* lines 379-383: the video URL of a block and the value of video_id after them
block_video_url(b) ==
    LET m == re_video_youtube_url_search(b)
    IN  IF m # None
        THEN <<YOUTUBE_WATCH>> \o LastChars(m, YOUTUBE_VIDEO_ID_LENGTH)
        ELSE None

video_id_after(b, video_id) ==
    LET m == re_video_youtube_url_search(b)
    IN  IF m # None THEN LastChars(m, YOUTUBE_VIDEO_ID_LENGTH) ELSE video_id

\* lines 387-390: both subtitle attributes are in the block
has_subs(b) == b.sub # None /\ b.avail # None

\* line 400
is_meaningful(video, mp4, pdf) == video # None \/ Len(mp4) > 0 \/ Len(pdf) > 0

\* lines 408-416: one Unit per embedded frame
extra_unit(extra_id) ==
    Unit(<<YOUTUBE_WATCH>> \o FirstChars(extra_id, YOUTUBE_VIDEO_ID_LENGTH),
         None, None, <<>>, <<>>)

extra_units(pg) == [i \in DOMAIN pg.embeds |-> extra_unit(pg.embeds[i])]

\* The loop of lines 378-405 from block i on, then lines 407-418.  The result
\* is the set of outcomes the call can have: it raises UnboundLocalError when
\* line 392 reads video_id before any block assigned it, and otherwise returns
\* units, whose mp4_urls are in any order (line 394).  origin is bookkeeping,
\* not program state: the block each Unit came from, 0 for an embedded frame.
RECURSIVE extract_from(_, _, _, _, _)
extract_from(pg, i, video_id, units, origin) ==
    IF i > Len(pg.blocks)
    THEN {[raised |-> "no", units |-> units \o extra_units(pg),
           origin |-> origin \o [j \in DOMAIN pg.embeds |-> 0]]}
    ELSE LET b == pg.blocks[i]
             video == block_video_url(b)
             vid == video_id_after(b, video_id)
             pdf == pdf_urls_of(b)
         IN  IF has_subs(b) /\ vid = Unbound
             THEN {[raised |-> "UnboundLocalError", units |-> <<>>, origin |-> <<>>]}
             ELSE UNION {
                    LET u == Unit(video,
                                  IF has_subs(b) THEN make_available_subs_url(b.avail)
                                                 ELSE None,
                                  IF has_subs(b) THEN make_sub_template_url(b.sub, vid)
                                                 ELSE None,
                                  mp4, pdf)
                    IN  IF is_meaningful(video, mp4, pdf)
                        THEN extract_from(pg, i + 1, vid, Append(units, u),
                                          Append(origin, i))
                        ELSE extract_from(pg, i + 1, vid, units, origin)
                    : mp4 \in ListOfSet(b.mp4) }

extract_units_from_html(pg) == extract_from(pg, 1, Unbound, <<>>, <<>>)

(***************************************************************************)
(* dict helpers                                                            *)
(***************************************************************************)
Keys(d) == [i \in DOMAIN d |-> d[i].key]

HasKey(d, k) == \E i \in DOMAIN d : d[i].key = k

\* d.get(k, default)
dict_get(d, k, default) ==
    IF HasKey(d, k) THEN d[CHOOSE i \in DOMAIN d : d[i].key = k].value ELSE default

\* d[k] = v: a new key is appended, an existing key keeps its place
dict_set(d, k, v) ==
    IF HasKey(d, k)
    THEN [i \in DOMAIN d |-> IF d[i].key = k THEN [key |-> k, value |-> v] ELSE d[i]]
    ELSE Append(d, [key |-> k, value |-> v])

\* dict(zip(ks, vs))
RECURSIVE dict_zip_from(_, _, _, _)
dict_zip_from(ks, vs, i, d) ==
    IF i > Len(ks) \/ i > Len(vs) THEN d
    ELSE dict_zip_from(ks, vs, i + 1, dict_set(d, ks[i], vs[i]))

dict_zip(ks, vs) == dict_zip_from(ks, vs, 1, <<>>)

(***************************************************************************)
(* Deduplicator                                                            *)
(***************************************************************************)
\* line 647: the test that lets a Unit through
not_in_existing_urls_Always(unit, existing_urls) == TRUE

not_in_existing_urls(unit, existing_urls) ==
    unit.video_youtube_url \notin existing_urls

\* line 649
add_existing_url(existing_urls, unit) == existing_urls \cup {unit.video_youtube_url}

\* lines 645-649: the inner loop from Unit j on; the result is reduced_units
\* and the set existing_urls after the loop
RECURSIVE reduce_units(_, _, _, _)
reduce_units(units, j, existing_urls, reduced_units) ==
    IF j > Len(units)
    THEN [reduced_units |-> reduced_units, existing_urls |-> existing_urls]
    ELSE IF not_in_existing_urls(units[j], existing_urls)
         THEN reduce_units(units, j + 1, add_existing_url(existing_urls, units[j]),
                           Append(reduced_units, units[j]))
         ELSE reduce_units(units, j + 1, existing_urls, reduced_units)

\* lines 644-650: the outer loop from entry i on
RECURSIVE remove_repeated_from(_, _, _, _)
remove_repeated_from(units_dict, i, existing_urls, filtered) ==
    IF i > Len(units_dict) THEN filtered
    ELSE LET r == reduce_units(units_dict[i].value, 1, existing_urls, <<>>)
         IN  remove_repeated_from(units_dict, i + 1, r.existing_urls,
                                  dict_set(filtered, units_dict[i].key, r.reduced_units))

remove_repeated_video_urls(units_dict) == remove_repeated_from(units_dict, 1, {}, <<>>)

(***************************************************************************)
(* Download orchestrator                                                   *)
(***************************************************************************)
\* the decimal digits of n >= 0
RECURSIVE Decimal(_)
Decimal(n) == IF n < 10 THEN <<ToString(n)>> ELSE Append(Decimal(n \div 10), ToString(n % 10))

\* "%02d" % n
Format02d(n) == IF n < 10 THEN <<"0">> \o Decimal(n) ELSE Decimal(n)

\* The names bound in the module's namespace when download_unit runs: the
\* imports of lines 4-35 and the module's own definitions.
ModuleNames ==
    {"argparse", "json", "os", "re", "sys", "namedtuple", "partial", "ThreadPool",
     "BeautifulSoup_", "CookieJar", "HTTPError", "URLError", "urlencode", "urlopen",
     "build_opener", "install_opener", "HTTPCookieProcessor", "Request",
     "compat_print", "edx_json2srt", "directory_name", "execute_command",
     "get_filename_from_prefix", "get_page_contents", "get_page_contents_as_json",
     "BeautifulSoup", "Course", "Section", "SubSection", "Unit",
     "change_openedx_site", "_display_courses", "get_courses_info",
     "_get_initial_token", "get_available_sections", "edx_get_subtitle", "edx_login",
     "parse_args", "edx_get_headers", "extract_units", "extract_units_from_html",
     "extract_all_units", "_display_sections_menu", "_filter_sections",
     "_display_sections", "parse_courses", "parse_sections", "_display_selections",
     "parse_units", "_download_video_youtube", "_download_subtitles",
     "_download_urls", "download_unit", "download", "remove_repeated_video_urls",
     "_length_units", "main"}

\* download_unit(unit, ...): "no" when it returns, else the exception it
\* raises.  Line 598 calls mkdir_p before anything else, and _download_urls
\* (lines 590-591) calls _print and urlretrieve for each URL; a name that is
\* not bound raises NameError.
download_unit(unit) ==
    IF "mkdir_p" \notin ModuleNames THEN "NameError"
    ELSE IF /\ Len(unit.mp4_urls) + Len(unit.pdf_urls) > 0
            /\ {"_print", "urlretrieve"} \ ModuleNames # {}
         THEN "NameError"
         ELSE "no"

\* the sections the loop of line 622 walks, and the subsections of line 628
dl_sections == selections[dl.c].value
dl_subsections == dl_sections[dl.s].subsections

\* line 620
DownloadNextCourse ==
    /\ pc = "dl_courses"
    /\ IF dl.c < Len(selections)
       THEN /\ dl' = [dl EXCEPT !.c = dl.c + 1, !.s = 0]
            /\ pc' = "dl_sections"
       ELSE /\ pc' = "download_done"
            /\ UNCHANGED dl
    /\ UNCHANGED <<remote, subsVars, extractVars, inputVars, poolVars, selections, all_units,
                   filtered_units, dl_units, counter, handed, exit_code, exc>>

\* lines 622-627
DownloadNextSection ==
    /\ pc = "dl_sections"
    /\ IF dl.s < Len(dl_sections)
       THEN /\ dl' = [dl EXCEPT !.s = dl.s + 1, !.k = 0]
            /\ counter' = 0
            /\ pc' = "dl_subsections"
       ELSE /\ pc' = "dl_courses"
            /\ UNCHANGED <<dl, counter>>
    /\ UNCHANGED <<remote, subsVars, extractVars, inputVars, poolVars, selections, all_units,
                   filtered_units, dl_units, handed, exit_code, exc>>

\* lines 628-629
DownloadNextSubsection ==
    /\ pc = "dl_subsections"
    /\ IF dl.k < Len(dl_subsections)
       THEN /\ dl' = [dl EXCEPT !.k = dl.k + 1, !.u = 0]
            /\ pc' = "dl_units"
       ELSE /\ pc' = "dl_sections"
            /\ UNCHANGED dl
    /\ UNCHANGED <<remote, subsVars, extractVars, inputVars, poolVars, selections, all_units,
                   filtered_units, dl_units, counter, handed, exit_code, exc>>

\* lines 630-634
DownloadNextUnit ==
    /\ pc = "dl_units"
    /\ LET units == dict_get(dl_units, dl_subsections[dl.k].url, <<>>)
       IN  IF dl.u < Len(units)
           THEN /\ dl' = [dl EXCEPT !.u = dl.u + 1]
                /\ counter' = counter + 1
                /\ handed' = Append(handed,
                                    [course |-> selections[dl.c].key,
                                     section |-> dl_sections[dl.s].position,
                                     url |-> dl_subsections[dl.k].url,
                                     filename_prefix |-> Format02d(counter + 1),
                                     unit |-> units[dl.u + 1]])
                /\ IF download_unit(units[dl.u + 1]) = "no"
                   THEN UNCHANGED <<pc, exc>>
                   ELSE /\ pc' = "download_raised"
                        /\ exc' = <<download_unit(units[dl.u + 1])>>
           ELSE /\ pc' = "dl_subsections"
                /\ UNCHANGED <<dl, counter, handed, exc>>
    /\ UNCHANGED <<remote, subsVars, extractVars, inputVars, poolVars, selections, all_units,
                   filtered_units, dl_units, exit_code>>

(***************************************************************************)
(* Structure parser: the course tree                                       *)
(***************************************************************************)
CourseUrl(c) == <<BASE_URL, "/courses/", ToString(c), "/info">>

\* Course(id, name, url, state) of a started course
CourseOf(c) == [id |-> c, url |-> CourseUrl(c), state |-> "Started"]

SubUrl(c, i, j) == <<BASE_URL, "/courses/", ToString(c), "/courseware/",
                     ToString(i), "/", ToString(j)>>

\* lines 201-218: positions are 1-based and in document order
SectionsOf(c, shape) ==
    [i \in DOMAIN shape |->
        [position |-> i,
         subsections |-> [j \in 1..shape[i] |-> [position |-> j, url |-> SubUrl(c, i, j)]]]]

\* line 701-704
RECURSIVE UrlsOfSections(_)
UrlsOfSections(sections) ==
    IF sections = <<>> THEN <<>>
    ELSE [j \in DOMAIN Head(sections).subsections |-> Head(sections).subsections[j].url]
         \o UrlsOfSections(Tail(sections))

RECURSIVE UrlsOf(_)
UrlsOf(sel) ==
    IF sel = <<>> THEN <<>> ELSE UrlsOfSections(Head(sel).value) \o UrlsOf(Tail(sel))

(***************************************************************************)
(* Course and section selection                                            *)
(***************************************************************************)
DigitChars == {"0", "1", "2", "3", "4", "5", "6", "7", "8", "9"}

DigitValue(c) == CHOOSE d \in 0..9 : ToString(d) = c

RECURSIVE DecimalValue(_)
DecimalValue(ds) ==
    IF ds = <<>> THEN 0
    ELSE 10 * DecimalValue(SubSeq(ds, 1, Len(ds) - 1)) + DigitValue(ds[Len(ds)])

\* int(s) of line 455: an optional sign and decimal digits; anything else
\* raises ValueError (ok is FALSE)
int(s) ==
    LET signed == Len(s) > 0 /\ s[1] \in {"-", "+"}
        digits == IF signed THEN Tail(s) ELSE s
    IN  IF Len(digits) > 0 /\ \A i \in DOMAIN digits : digits[i] \in DigitChars
        THEN [ok |-> TRUE,
              value |-> IF signed /\ s[1] = "-" THEN 0 - DecimalValue(digits)
                                               ELSE DecimalValue(digits)]
        ELSE [ok |-> FALSE, value |-> 0]

\* lines 448-460, with every section dropped for an index that selects none
_filter_sections_DropAll(index, sections) ==
    IF index # None /\ int(index).ok
       /\ int(index).value > 0 /\ int(index).value <= Len(sections)
    THEN <<sections[int(index).value]>>
    ELSE <<>>

\* lines 448-460
_filter_sections(index, sections) ==
    IF index # None /\ int(index).ok
       /\ int(index).value > 0 /\ int(index).value <= Len(sections)
    THEN <<sections[int(index).value]>>
    ELSE sections

\* lines 486-489: one entry per (available course, given URL) pair that match
RECURSIVE matching_courses(_, _)
matching_courses(courses, urls) ==
    IF courses = <<>> THEN <<>>
    ELSE [i \in 1..Cardinality({j \in DOMAIN urls : urls[j] = Head(courses).url})
            |-> Head(courses)]
         \o matching_courses(Tail(courses), urls)

\* parse_courses, lines 474-493: the exit code, or <<>> when it returns
parse_courses_exit(a, courses) ==
    IF a.course_list THEN <<0>>
    ELSE IF Len(a.course_urls) = 0 THEN <<3>>
    ELSE IF Len(matching_courses(courses, a.course_urls)) = 0 THEN <<4>>
    ELSE <<>>

\* "not args.section_filter" of line 506: None and the empty string are false
not_section_filter(a) == a.section_filter = None \/ a.section_filter = <<>>

\* lines 509-512
filtered_selections(a, sel) ==
    [i \in DOMAIN sel |->
        [key |-> sel[i].key, value |-> _filter_sections(a.section_filter, sel[i].value)]]

\* line 529 as main calls it (line 706): the values of selections, flattened
RECURSIVE flat_values(_)
flat_values(d) == IF d = <<>> THEN <<>> ELSE Head(d).value \o flat_values(Tail(d))

\* lines 525-532: the exit code, or <<>> when it returns
parse_units_exit(d) == IF Len(flat_values(d)) < 1 THEN <<6>> ELSE <<>>

(***************************************************************************)
(* SpecExtract: extract_units_from_html applied to bounded pages           *)
(***************************************************************************)
MaxBlocks == 2
MaxEmbeds == 1

IdA == Rep("A", 11)
IdB == Rep("B", 11)

\* what follows the speed marker: nothing of a data-streams attribute, an
\* identifier cut short by the end of the line, a full identifier, a full
\* identifier followed by the rest of the attribute
StreamsSet == {None, Rep("S", 5), IdA, IdB \o <<",", "1">>}

SubsSet == {[sub |-> None, avail |-> None],
            [sub |-> <<"/tr">>, avail |-> None],
            [sub |-> <<"/tr">>, avail |-> <<"/av">>]}

Mp4Set == {<<>>, <<"http://h/2.mp4", "http://h/1.mp4", "http://h/2.mp4">>}

PdfSet == {<<>>, << <<"/a.pdf">> >>}

BlockSet ==
    {[streams |-> s, sub |-> t.sub, avail |-> t.avail, mp4 |-> m, pdf |-> p] :
        s \in StreamsSet, t \in SubsSet, m \in Mp4Set, p \in PdfSet}

\* identifiers captured by re_extra_youtube: shorter than, exactly and longer
\* than YOUTUBE_VIDEO_ID_LENGTH
EmbedSet == {Rep("e", 3), IdA, Rep("L", 13)}

SeqsUpTo(S, n) == UNION {[1..k -> S] : k \in 0..n}

NoPage == [blocks |-> <<>>, embeds |-> <<>>]
NoOutcome == [raised |-> "no", units |-> <<>>, origin |-> <<>>]

NoArgs == [course_urls |-> <<>>, course_list |-> FALSE, section_list |-> FALSE,
           section_filter |-> None]
NoCursor == [c |-> 0, s |-> 0, k |-> 0, u |-> 0]
NoUnit == Unit(None, None, None, <<>>, <<>>)
NoSub == [run |-> 0, first_run |-> "none", python3 |-> FALSE, unit |-> NoUnit, filename_prefix |-> "",
          filename |-> None, listing |-> "none", available_subs |-> <<>>, i |-> 0,
          log |-> <<>>, written |-> <<>>]

\* the variables a specification of one function leaves alone
IdleExtract == page = NoPage /\ outcome = NoOutcome
IdleInput ==
    args = NoArgs /\ available_courses = <<>> /\ site = <<>> /\ selected_courses = <<>>
IdlePool == all_urls = <<>> /\ tasks = <<>>
IdleDownload == dl_units = <<>> /\ dl = NoCursor /\ counter = 0 /\ handed = <<>>
IdleExit == exit_code = <<>> /\ exc = None
IdleRemote == remote = <<>>
IdleSubs == fs = {} /\ subtitles = NoSub

InitExtract ==
    /\ pc = "extract"
    /\ \E bs \in SeqsUpTo(BlockSet, MaxBlocks) :
          \E es \in SeqsUpTo(EmbedSet, MaxEmbeds) :
              page = [blocks |-> bs, embeds |-> es]
    /\ outcome = NoOutcome
    /\ IdleInput /\ IdlePool /\ IdleDownload /\ IdleExit /\ IdleRemote /\ IdleSubs
    /\ selections = <<>> /\ all_units = <<>> /\ filtered_units = <<>>

ExtractReturn ==
    /\ pc = "extract"
    /\ \E o \in extract_units_from_html(page) :
          /\ o.raised = "no"
          /\ outcome' = o
    /\ pc' = "extract_done"
    /\ UNCHANGED <<remote, subsVars, page, inputVars, poolVars, downloadVars, selections, all_units,
                   filtered_units, exit_code, exc>>

ExtractRaise ==
    /\ pc = "extract"
    /\ \E o \in extract_units_from_html(page) :
          /\ o.raised # "no"
          /\ outcome' = o
          /\ exc' = <<o.raised>>
    /\ pc' = "extract_raised"
    /\ UNCHANGED <<remote, subsVars, page, inputVars, poolVars, downloadVars, selections, all_units,
                   filtered_units, exit_code>>

NextExtract == ExtractReturn \/ ExtractRaise

SpecExtract == InitExtract /\ [][NextExtract]_vars

(***************************************************************************)
(* SpecDedup: remove_repeated_video_urls applied to bounded Extraction     *)
(* Results                                                                 *)
(***************************************************************************)
MaxKeys == 2
MaxUnits == 2

VideoA == <<YOUTUBE_WATCH>> \o IdA
VideoB == <<YOUTUBE_WATCH>> \o IdB

PdfA == <<BASE_URL, "/a.pdf">>

\* a Unit without video, a Unit with video only, a Unit with the same video
\* and a document, a Unit with another video
UnitSet == {Unit(None, None, None, <<>>, <<PdfA>>),
            Unit(VideoA, None, None, <<>>, <<>>),
            Unit(VideoA, None, None, <<>>, <<PdfA>>),
            Unit(VideoB, None, None, <<>>, <<>>)}

SubSectionUrl(n) == <<BASE_URL, "/subsection/", ToString(n)>>

InitDedup ==
    /\ pc = "dedup"
    /\ \E n \in 0..MaxKeys :
          \E f \in [1..n -> SeqsUpTo(UnitSet, MaxUnits)] :
              all_units = [i \in 1..n |-> [key |-> SubSectionUrl(i), value |-> f[i]]]
    /\ filtered_units = <<>>
    /\ selections = <<>>
    /\ IdleExtract /\ IdleInput /\ IdlePool /\ IdleDownload /\ IdleExit /\ IdleRemote /\ IdleSubs

DedupReturn ==
    /\ pc = "dedup"
    /\ filtered_units' = remove_repeated_video_urls(all_units)
    /\ pc' = "dedup_done"
    /\ UNCHANGED <<remote, subsVars, extractVars, inputVars, poolVars, downloadVars, selections,
                   all_units, exit_code, exc>>

NextDedup == DedupReturn

SpecDedup == InitDedup /\ [][NextDedup]_vars

(***************************************************************************)
(* Claims about the deduplicator                                           *)
(***************************************************************************)
\* the [key, unit] pairs of a dict of Unit sequences, in processing order
RECURSIVE Flat(_)
Flat(d) ==
    IF d = <<>> THEN <<>>
    ELSE [j \in DOMAIN Head(d).value |-> [key |-> Head(d).key, unit |-> Head(d).value[j]]]
         \o Flat(Tail(d))

\* the Units of a sequence that have no video, in order
RECURSIVE VideoLess(_)
VideoLess(units) ==
    IF units = <<>> THEN <<>>
    ELSE IF Head(units).video_youtube_url = None
         THEN <<Head(units)>> \o VideoLess(Tail(units))
         ELSE VideoLess(Tail(units))

\* C2: deduplication keeps every Unit that has no video: under each key the
\* video-less Units of the result are the video-less Units of the input.
C2_VideoLessUnitsKept ==
    pc = "dedup_done" =>
        /\ Keys(filtered_units) = Keys(all_units)
        /\ \A i \in DOMAIN all_units :
              VideoLess(filtered_units[i].value) = VideoLess(all_units[i].value)

Occurrences(flat, v) == {i \in DOMAIN flat : flat[i].unit.video_youtube_url = v}

Min(S) == CHOOSE x \in S : \A y \in S : x <= y

\* C3: for every video URL v of the input, the result holds exactly one Unit
\* with video v: the first Unit with v in processing order, whole and under
\* its own key.  Every later Unit with v is gone from its sequence.
C3_FirstOccurrenceKept ==
    pc = "dedup_done" =>
        /\ Keys(filtered_units) = Keys(all_units)
        /\ \A i \in DOMAIN Flat(all_units) :
              LET v == Flat(all_units)[i].unit.video_youtube_url
                  first == Flat(all_units)[Min(Occurrences(Flat(all_units), v))]
                  kept == Occurrences(Flat(filtered_units), v)
              IN  v # None =>
                    /\ Cardinality(kept) = 1
                    /\ \A k \in kept : Flat(filtered_units)[k] = first

\* C3 witness: a Unit with a document was dropped from the second subsection
\* because the first subsection holds its video.
C3_Witness ==
    /\ pc = "dedup_done"
    /\ Len(all_units) >= 2
    /\ \E j \in DOMAIN all_units[2].value :
          /\ all_units[2].value[j].video_youtube_url = VideoA
          /\ Len(all_units[2].value[j].pdf_urls) > 0
          /\ \E i \in DOMAIN all_units[1].value :
                /\ all_units[1].value[i].video_youtube_url = VideoA
                /\ all_units[1].value[i].pdf_urls = <<>>
          /\ filtered_units[2].value = <<>>
          /\ Len(all_units[2].value) = 1

(***************************************************************************)
(* Claims about the Unit extractor                                         *)
(***************************************************************************)
\* xs without its repeats, in the order of first occurrence
RECURSIVE FirstSeen(_, _)
FirstSeen(xs, seen) ==
    IF xs = <<>> THEN <<>>
    ELSE IF Head(xs) \in seen THEN FirstSeen(Tail(xs), seen)
         ELSE <<Head(xs)>> \o FirstSeen(Tail(xs), seen \cup {Head(xs)})

\* C8: the subtitle fields of a Unit are both unset or both set, and they are
\* set only for a Unit of a block that holds both subtitle attributes and a
\* video identifier of its own, which is the identifier in the template.
C8_SubtitlesNeedOwnVideoId ==
    pc = "extract_done" =>
        \A k \in DOMAIN outcome.units :
            LET u == outcome.units[k]
                o == outcome.origin[k]
            IN  /\ (u.available_subs_url = None) <=> (u.sub_template_url = None)
                /\ u.sub_template_url # None =>
                      /\ o # 0
                      /\ has_subs(page.blocks[o])
                      /\ re_video_youtube_url_search(page.blocks[o]) # None
                      /\ u.sub_template_url =
                            make_sub_template_url(page.blocks[o].sub,
                                SubSeq(page.blocks[o].streams, 1, YOUTUBE_VIDEO_ID_LENGTH))

\* C9: the media URLs of a block's Unit are the distinct URLs matched in the
\* block, in the order of their first occurrence.
C9_Mp4FirstSeenOrder ==
    pc = "extract_done" =>
        \A k \in DOMAIN outcome.units :
            outcome.origin[k] # 0 =>
                outcome.units[k].mp4_urls = FirstSeen(page.blocks[outcome.origin[k]].mp4, {})

\* C10: the video URL of every Unit is absent or the watch URL followed by
\* exactly 11 characters.
C10_VideoIdHas11Chars ==
    pc = "extract_done" =>
        \A k \in DOMAIN outcome.units :
            LET url == outcome.units[k].video_youtube_url
            IN  url # None =>
                  /\ url[1] = YOUTUBE_WATCH
                  /\ Len(url) = 1 + YOUTUBE_VIDEO_ID_LENGTH

(***************************************************************************)
(* SpecDownload: download applied to bounded selections and Extraction     *)
(* Results                                                                 *)
(***************************************************************************)
MaxSections == 2
MaxUrls == 2

\* a shape is the number of subsections of each section of a course
Sum(shape) == LET RECURSIVE S(_)
                  S(q) == IF q = <<>> THEN 0 ELSE Head(q) + S(Tail(q))
              IN  S(shape)

ShapeSet == {sh \in SeqsUpTo(0..MaxUrls, MaxSections) : Sum(sh) <= MaxUrls}

\* selections of one or two courses with at most MaxUrls subsections in all
SelectionsSet ==
    {<< >>}
    \cup {<<[key |-> CourseOf(1), value |-> SectionsOf(1, sh)]>> : sh \in ShapeSet}
    \cup {<<[key |-> CourseOf(1), value |-> SectionsOf(1, sh[1])],
            [key |-> CourseOf(2), value |-> SectionsOf(2, sh[2])]>> :
              sh \in {p \in ShapeSet \X ShapeSet : Sum(p[1]) + Sum(p[2]) <= MaxUrls}}

InitDownload ==
    /\ pc = "dl_courses"
    /\ selections \in SelectionsSet
    /\ \E f \in [DOMAIN UrlsOf(selections) -> SeqsUpTo(UnitSet, MaxUnits)] :
          dl_units = [i \in DOMAIN f |-> [key |-> UrlsOf(selections)[i], value |-> f[i]]]
    /\ dl = NoCursor /\ counter = 0 /\ handed = <<>>
    /\ all_units = <<>> /\ filtered_units = <<>>
    /\ IdleExtract /\ IdleInput /\ IdlePool /\ IdleExit /\ IdleRemote /\ IdleSubs

NextDownload ==
    \/ DownloadNextCourse
    \/ DownloadNextSection
    \/ DownloadNextSubsection
    \/ DownloadNextUnit

SpecDownload == InitDownload /\ [][NextDownload]_vars

(***************************************************************************)
(* Claims about the download orchestrator                                  *)
(***************************************************************************)
\* the prefixes handed to download_unit for section sec of course c, in order
RECURSIVE PrefixesOf(_, _, _)
PrefixesOf(calls, c, sec) ==
    IF calls = <<>> THEN <<>>
    ELSE IF Head(calls).course = c /\ Head(calls).section = sec
         THEN <<Head(calls).filename_prefix>> \o PrefixesOf(Tail(calls), c, sec)
         ELSE PrefixesOf(Tail(calls), c, sec)

\* the number of Units the mapping d holds for the subsections of a section
RECURSIVE UnitsInSubsections(_, _)
UnitsInSubsections(subs, d) ==
    IF subs = <<>> THEN 0
    ELSE Len(dict_get(d, Head(subs).url, <<>>)) + UnitsInSubsections(Tail(subs), d)

\* C5: when download has ended, the prefixes handed to download_unit for each
\* selected Section are 01, 02, ..., n, n the number of Units of the Section.
C5_PrefixesPerSection ==
    pc \in {"download_done", "download_raised"} =>
        \A ci \in DOMAIN selections :
            \A si \in DOMAIN selections[ci].value :
                LET sec == selections[ci].value[si]
                    n == UnitsInSubsections(sec.subsections, dl_units)
                IN  PrefixesOf(handed, selections[ci].key, sec.position)
                      = [i \in 1..n |-> Format02d(i)]

(***************************************************************************)
(* Concurrent extraction orchestrator                                      *)
(***************************************************************************)
\* ThreadPool(20), line 429
POOL_WORKERS == 20

NotFetched == [state |-> "none", page |-> NoPage]
FetchFailed == [state |-> "failed", page |-> NoPage]
Fetched(p) == [state |-> "ok", page |-> p]

\* the pages a subsection URL can serve: no Unit; one Unit with a video and a
\* document; one Unit with a document only
SitePageSet ==
    {NoPage,
     [blocks |-> <<[streams |-> IdA, sub |-> None, avail |-> None, mp4 |-> <<>>,
                    pdf |-> << <<"/a.pdf">> >>]>>, embeds |-> <<>>],
     [blocks |-> <<[streams |-> None, sub |-> None, avail |-> None, mp4 |-> <<>>,
                    pdf |-> << <<"/a.pdf">> >>]>>, embeds |-> <<>>]}

\* what a request for a page can give: a page, or a fetch failure
page_answers == {FetchFailed} \cup {Fetched(p) : p \in SitePageSet}

\* get_page_contents(url, headers): one of the answers the server has for the
\* URL; any answer for a URL that remote does not list
get_page_contents(url) ==
    IF HasKey(remote, url) THEN dict_get(remote, url, {}) ELSE page_answers

\* extract_units, lines 346-353, given what get_page_contents did: nothing
\* catches a fetch failure
extract_units(f) ==
    IF f.state = "failed"
    THEN {[raised |-> "FetchError", units |-> <<>>, origin |-> <<>>]}
    ELSE extract_units_from_html(f.page)

\* the task pool.map makes of one element of urls
PendingTask(url) ==
    [url |-> url, status |-> "pending", fetched |-> NotFetched, result |-> NoOutcome]

\* the number of running tasks that a task that ends may have started after
MaxOvertaken == 1

Running == {i \in DOMAIN tasks : tasks[i].status = "running"}

\* a pool that starts a thread for every task
TaskStart_Unbounded(i) ==
    /\ pc = "pool"
    /\ tasks[i].status = "pending"
    /\ \A j \in 1..(i - 1) : tasks[j].status # "pending"
    /\ tasks' = [tasks EXCEPT ![i].status = "running"]
    /\ UNCHANGED <<remote, subsVars, pc, extractVars, inputVars, downloadVars, selections,
                   all_urls, all_units, filtered_units, exit_code, exc>>

\* a worker of the pool takes a task of pool.map (line 430): one of the
\* POOL_WORKERS threads that is not running a task takes the next task of
\* the queue, which holds the tasks in the order of urls
TaskStart(i) ==
    /\ pc = "pool"
    /\ tasks[i].status = "pending"
    /\ \A j \in 1..(i - 1) : tasks[j].status # "pending"
    /\ Cardinality(Running) < POOL_WORKERS
    /\ tasks' = [tasks EXCEPT ![i].status = "running"]
    /\ UNCHANGED <<remote, subsVars, pc, extractVars, inputVars, downloadVars, selections, all_urls,
                   all_units, filtered_units, exit_code, exc>>

\* the worker runs extract_units(url) to its end
TaskFinish(i) ==
    /\ pc = "pool"
    /\ tasks[i].status = "running"
    /\ Cardinality({j \in Running : j < i}) <= MaxOvertaken
    /\ \E f \in get_page_contents(tasks[i].url) :
          \E o \in extract_units(f) :
              tasks' = [tasks EXCEPT ![i] = [url |-> tasks[i].url, status |-> "done",
                                             fetched |-> f, result |-> o]]
    /\ UNCHANGED <<remote, subsVars, pc, extractVars, inputVars, downloadVars, selections, all_urls,
                   all_units, filtered_units, exit_code, exc>>

\* pool.map re-raises the exception of a task in the caller: at once in
\* Python 2.7, when every task has ended in Python 3.8
PoolRaise ==
    /\ pc = "pool"
    /\ \E i \in DOMAIN tasks :
          /\ tasks[i].status = "done"
          /\ tasks[i].result.raised # "no"
          /\ exc' = <<tasks[i].result.raised>>
    /\ pc' = "extract_all_raised"
    /\ UNCHANGED <<remote, subsVars, extractVars, inputVars, poolVars, downloadVars, selections,
                   all_units, filtered_units, exit_code>>

\* a streaming merge: the mapping is built as soon as one task has ended
PoolReturn_Streaming ==
    /\ pc = "pool"
    /\ \E i \in DOMAIN tasks : tasks[i].status = "done"
    /\ \A i \in DOMAIN tasks : tasks[i].result.raised = "no"
    /\ all_units' = dict_zip(all_urls, [i \in DOMAIN tasks |-> tasks[i].result.units])
    /\ pc' = "parse_units"
    /\ UNCHANGED <<remote, subsVars, extractVars, inputVars, poolVars, downloadVars,
                   selections, filtered_units, exit_code, exc>>

\* lines 430-435
PoolReturn ==
    /\ pc = "pool"
    /\ \A i \in DOMAIN tasks : tasks[i].status = "done" /\ tasks[i].result.raised = "no"
    /\ all_units' = dict_zip(all_urls, [i \in DOMAIN tasks |-> tasks[i].result.units])
    /\ pc' = "parse_units"
    /\ UNCHANGED <<remote, subsVars, extractVars, inputVars, poolVars, downloadVars, selections,
                   filtered_units, exit_code, exc>>

(***************************************************************************)
(* main, lines 686-719                                                     *)
(***************************************************************************)
\* get_available_sections, lines 191-219, for a course of the dashboard
get_available_sections(course) == SectionsOf(course.id, site[course.id])

\* lines 692-694
RECURSIVE all_selections_from(_, _)
all_selections_from(courses, d) ==
    IF courses = <<>> THEN d
    ELSE all_selections_from(Tail(courses),
                             dict_set(d, Head(courses), get_available_sections(Head(courses))))

\* lines 688-689
ParseCourses ==
    /\ pc = "parse_courses"
    /\ IF parse_courses_exit(args, available_courses) # <<>>
       THEN /\ exit_code' = parse_courses_exit(args, available_courses)
            /\ pc' = "exit"
            /\ UNCHANGED selected_courses
       ELSE /\ selected_courses' = matching_courses(available_courses, args.course_urls)
            /\ pc' = "get_sections"
            /\ UNCHANGED exit_code
    /\ UNCHANGED <<remote, subsVars, extractVars, args, available_courses, site, poolVars, downloadVars,
                   selections, all_units, filtered_units, exc>>

\* lines 692-694
GetSections ==
    /\ pc = "get_sections"
    /\ selections' = all_selections_from(selected_courses, <<>>)
    /\ pc' = "parse_sections"
    /\ UNCHANGED <<remote, subsVars, extractVars, inputVars, poolVars, downloadVars, all_units,
                   filtered_units, exit_code, exc>>

\* line 210: the fetch of a courseware page fails
GetSectionsRaise ==
    /\ pc = "get_sections"
    /\ exc' = <<"FetchError">>
    /\ pc' = "get_sections_raised"
    /\ UNCHANGED <<remote, subsVars, extractVars, inputVars, poolVars, downloadVars, selections,
                   all_units, filtered_units, exit_code>>

\* line 695, parse_sections of lines 496-512
ParseSections ==
    /\ pc = "parse_sections"
    /\ IF args.section_list
       THEN /\ exit_code' = <<0>>
            /\ pc' = "exit"
            /\ UNCHANGED selections
       ELSE /\ selections' = IF not_section_filter(args) THEN selections
                                                        ELSE filtered_selections(args, selections)
            /\ pc' = "extract_call"
            /\ UNCHANGED exit_code
    /\ UNCHANGED <<remote, subsVars, extractVars, inputVars, poolVars, downloadVars, all_units,
                   filtered_units, exc>>

\* lines 701-705 and 428-430: the URLs are submitted to the pool
ExtractAllUnitsCall ==
    /\ pc = "extract_call"
    /\ all_urls' = UrlsOf(selections)
    /\ tasks' = [i \in DOMAIN UrlsOf(selections) |-> PendingTask(UrlsOf(selections)[i])]
    /\ pc' = "pool"
    /\ UNCHANGED <<remote, subsVars, extractVars, inputVars, downloadVars, selections, all_units,
                   filtered_units, exit_code, exc>>

\* line 706: parse_units is given selections
ParseUnits ==
    /\ pc = "parse_units"
    /\ IF parse_units_exit(selections) # <<>>
       THEN /\ exit_code' = parse_units_exit(selections)
            /\ pc' = "exit"
       ELSE /\ pc' = "dedup"
            /\ UNCHANGED exit_code
    /\ UNCHANGED <<remote, subsVars, extractVars, inputVars, poolVars, downloadVars, selections,
                   all_units, filtered_units, exc>>

\* line 719: download is given all_units
DownloadCall ==
    /\ pc = "dedup_done"
    /\ dl_units' = all_units
    /\ dl' = NoCursor
    /\ pc' = "dl_courses"
    /\ UNCHANGED <<remote, subsVars, extractVars, inputVars, poolVars, selections, all_units,
                   filtered_units, counter, handed, exit_code, exc>>

\* main returns: the process ends with status 0
MainReturn ==
    /\ pc = "download_done"
    /\ exit_code' = <<0>>
    /\ pc' = "exit"
    /\ UNCHANGED <<remote, subsVars, extractVars, inputVars, poolVars, downloadVars, selections,
                   all_units, filtered_units, exc>>

\* lines 722-727 catch KeyboardInterrupt only: any other exception ends the
\* process with a traceback and status 1
MainUncaught ==
    /\ pc \in {"get_sections_raised", "extract_all_raised", "download_raised"}
    /\ exit_code' = <<1>>
    /\ pc' = "exit"
    /\ UNCHANGED <<remote, subsVars, extractVars, inputVars, poolVars, downloadVars, selections,
                   all_units, filtered_units, exc>>

(***************************************************************************)
(* Spec: a run of main from parse_courses on                               *)
(***************************************************************************)
CourseIds == {1, 2}

UnknownCourseUrl == <<BASE_URL, "/courses/", "unknown", "/info">>

CourseUrlsSet == {<<>>, <<UnknownCourseUrl>>, <<CourseUrl(1)>>,
                  <<CourseUrl(2), CourseUrl(1)>>}

\* no filter, the empty string, a word, a negative number, and the numbers
\* from 0 to one more than a course can have sections
FilterSet == {None, <<>>, <<"x">>, <<"-", "1">>}
             \cup {Decimal(d) : d \in 0..(MaxSections + 1)}

ArgsSet == {[course_urls |-> u, course_list |-> cl, section_list |-> sl,
             section_filter |-> f] :
                u \in CourseUrlsSet, cl \in BOOLEAN, sl \in BOOLEAN, f \in FilterSet}

AvailableSet == {[i \in 1..n |-> CourseOf(i)] : n \in 0..Cardinality(CourseIds)}

SitesFor(n) == {st \in [1..n -> ShapeSet] :
                  Sum([i \in 1..n |-> Sum(st[i])]) <= MaxUrls}

Init ==
    /\ pc = "parse_courses"
    /\ args \in ArgsSet
    /\ available_courses \in AvailableSet
    /\ site \in SitesFor(Len(available_courses))
    /\ selected_courses = <<>>
    /\ selections = <<>> /\ all_units = <<>> /\ filtered_units = <<>>
    /\ IdleExtract /\ IdlePool /\ IdleDownload /\ IdleExit /\ IdleRemote /\ IdleSubs

Next ==
    \/ ParseCourses
    \/ GetSections
    \/ GetSectionsRaise
    \/ ParseSections
    \/ ExtractAllUnitsCall
    \/ \E i \in DOMAIN tasks : TaskStart(i)
    \/ \E i \in DOMAIN tasks : TaskFinish(i)
    \/ PoolRaise
    \/ PoolReturn
    \/ ParseUnits
    \/ DedupReturn
    \/ DownloadCall
    \/ DownloadNextCourse
    \/ DownloadNextSection
    \/ DownloadNextSubsection
    \/ DownloadNextUnit
    \/ MainReturn
    \/ MainUncaught

Spec == Init /\ [][Next]_vars

(***************************************************************************)
(* Claims about a run of main                                              *)
(***************************************************************************)
DownloadPcs == {"dl_courses", "dl_sections", "dl_subsections", "dl_units",
                "download_done", "download_raised"}

\* C1: extract_all_units does not raise for a fetch failure; it returns a
\* mapping with a key for every submitted URL, the empty sequence for a URL
\* whose fetch failed and the Units of its page for any other URL.
C1_FetchFailureIsolated ==
    /\ ~(pc = "extract_all_raised" /\ exc = <<"FetchError">>)
    /\ pc = "parse_units" =>
          \A i \in DOMAIN all_urls :
              /\ HasKey(all_units, all_urls[i])
              /\ dict_get(all_units, all_urls[i], <<>>) =
                    IF tasks[i].fetched.state = "failed" THEN <<>>
                    ELSE tasks[i].result.units

\* C4: download walks the deduplicated mapping, so that no video URL is
\* handed over twice in a run.
C4_DownloadWalksDeduplicated ==
    /\ pc \in DownloadPcs => dl_units = filtered_units
    /\ \A i \in DOMAIN handed : \A j \in DOMAIN handed :
          (i # j /\ handed[i].unit.video_youtube_url # None) =>
              handed[i].unit.video_youtube_url # handed[j].unit.video_youtube_url

\* C6: a run whose extraction found no Unit at all exits with code 6 before
\* anything is downloaded, and a run that extracted a Unit does not exit with
\* code 6.
C6_NoUnitsExitsWith6 ==
    /\ pc \in {"dedup", "dedup_done"} \cup DownloadPcs => Flat(all_units) # <<>>
    /\ exit_code = <<6>> => Flat(all_units) = <<>>

\* none of the given course URLs is the URL of an available course
NoCourseMatches ==
    \A i \in DOMAIN available_courses : \A j \in DOMAIN args.course_urls :
        available_courses[i].url # args.course_urls[j]

\* the section filter is given (not the empty string) and designates no
\* section of the course: it is no integer, or none of 1..number of sections
FilterDesignatesNothing(course) ==
    /\ ~not_section_filter(args)
    /\ ~(/\ int(args.section_filter).ok
         /\ int(args.section_filter).value \in 1..Len(site[course.id]))

MatchedCourses ==
    {available_courses[i] : i \in {k \in DOMAIN available_courses :
        \E j \in DOMAIN args.course_urls : available_courses[k].url = args.course_urls[j]}}

\* C7 as stated: when no listing is asked for, a course filter or a section
\* filter that matches nothing ends the run with a non-zero exit code before
\* any extraction or download.
C7_UnmatchedFilterIsFatal ==
    (/\ ~args.course_list /\ ~args.section_list
     /\ \/ NoCourseMatches
        \/ \E c \in MatchedCourses : FilterDesignatesNothing(c))
    => /\ pc \in {"parse_courses", "get_sections", "get_sections_raised",
                  "parse_sections", "exit"}
       /\ pc = "exit" => exit_code \notin {<<>>, <<0>>}
       /\ tasks = <<>> /\ handed = <<>>

\* C7 as amended, the state part: an unmatched course filter ends the run in
\* parse_courses with code 3 or 4 and nothing is extracted or downloaded; a
\* section filter that designates no section of a course leaves all the
\* sections of that course selected.
C7_State ==
    /\ (~args.course_list /\ NoCourseMatches) =>
          /\ pc \in {"parse_courses", "exit"}
          /\ pc = "exit" => exit_code = (IF args.course_urls = <<>> THEN <<3>> ELSE <<4>>)
          /\ all_urls = <<>> /\ tasks = <<>> /\ handed = <<>>
    /\ pc = "extract_call" =>
          \A i \in DOMAIN selections :
              FilterDesignatesNothing(selections[i].key) =>
                  selections[i].value =
                      SectionsOf(selections[i].key.id, site[selections[i].key.id])

\* C7 as amended, the step part: unless the section list is asked for,
\* parse_sections returns and the run goes on to extraction.
C7_Step == (pc = "parse_sections" /\ ~args.section_list) => pc' = "extract_call"

\* C7 (amended): an unmatched course filter is fatal, an unmatched section
\* filter is not.
C7_OnlyCourseFilterIsFatal == []C7_State /\ [][C7_Step]_vars

\* C7 witness: extraction is about to start with both sections of a course
\* selected although the section filter designates neither.
C7_Witness ==
    /\ pc = "extract_call"
    /\ ~not_section_filter(args)
    /\ \E i \in DOMAIN selections :
          /\ FilterDesignatesNothing(selections[i].key)
          /\ Len(selections[i].value) = 2

(***************************************************************************)
(* Subtitle downloader: _download_subtitles, lines 554-583, called twice   *)
(* for the same Unit, prefix and target directory.  A file name is a       *)
(* sequence of fragments; fs holds the names of the target directory.      *)
(***************************************************************************)
\* every variable but pc, exc and those of the subtitle downloader
notSubsVars == <<remote, extractVars, inputVars, poolVars, downloadVars, selections,
                 all_units, filtered_units, exit_code>>

MaxLangs == 2

LangNames == <<"en", "es", "fr", "de">>
Langs == {LangNames[i] : i \in 1..MaxLangs}

\* the file the external downloader leaves for a video with prefix 01
VideoFile == <<"01", "-title-", "AAAAAAAAAAA", ".mp4">>

\* os.path.splitext(name)[0]
splitext_root(name) == SubSeq(name, 1, Len(name) - 1)

\* get_filename_from_prefix(target_dir, filename_prefix): the base name of
\* the file the video downloader produced for the prefix, found by a scan of
\* the directory; None when there is none
get_filename_from_prefix(files, filename_prefix) ==
    LET produced == {f \in files : f[1] = filename_prefix /\ f[Len(f)] = ".mp4"}
    IN  IF produced = {} THEN None
        ELSE splitext_root(CHOOSE f \in produced : TRUE)

\* lines 574-575: filename + '.' + sub_lang + '.srt'
subs_filename_of(filename, sub_lang) == filename \o <<".", sub_lang, ".srt">>

\* line 573: unit.sub_template_url % sub_lang
RECURSIVE format_template(_, _)
format_template(template, sub_lang) ==
    IF template = <<>> THEN <<>>
    ELSE (IF Head(template) = "/%s?videoId="
          THEN <<"/", sub_lang, "?videoId=">> ELSE <<Head(template)>>)
         \o format_template(Tail(template), sub_lang)

os_path_exists_Never(files, name) == FALSE

\* line 576: os.path.exists(subs_filename)
os_path_exists(files, name) == name \in files

\* get_page_contents_as_json(url, headers): the decoded JSON value, an HTTP
\* failure (HTTPError), another network failure (URLError) or a page that is
\* not JSON (ValueError)
JsonValue(v) == [kind |-> "value", value |-> v]
JsonFailures == {[kind |-> k, value |-> <<>>] : k \in {"HTTPError", "URLError", "ValueError"}}

\* the answers to the available-translations request: a list of languages
available_subs_answers == {JsonValue(l) : l \in SeqsUpTo(Langs, MaxLangs)} \cup JsonFailures

\* the answers to a subtitle request: a timed text with lines or without
subtitle_answers == {JsonValue(<<"line">>), JsonValue(<<>>)} \cup JsonFailures

\* edx_json2srt(json_object): the subtitle text, or None for a timed text
\* without lines
edx_json2srt(json_object) == IF json_object = <<>> THEN None ELSE <<"srt">> \o json_object

\* edx_get_subtitle, lines 222-235, given the answer to its request.
\* HTTPError is a URLError (line 230).  Line 234 reads exception.message,
\* which a ValueError has in Python 2 and has not in Python 3.
edx_get_subtitle(answer, python3) ==
    IF answer.kind = "value"
    THEN [raised |-> "no", value |-> edx_json2srt(answer.value)]
    ELSE IF answer.kind \in {"HTTPError", "URLError"}
    THEN [raised |-> "no", value |-> None]
    ELSE IF python3
    THEN [raised |-> "AttributeError", value |-> None]
    ELSE [raised |-> "no", value |-> None]

LogEntry(kind, name) == [run |-> subtitles.run, kind |-> kind, name |-> name]

\* lines 558-564
SubsStart ==
    /\ pc = "subs_start"
    /\ LET filename == get_filename_from_prefix(fs, subtitles.filename_prefix)
       IN  IF filename = None
           THEN /\ subtitles' = [subtitles EXCEPT !.log =
                                Append(@, LogEntry("no video", subtitles.filename_prefix))]
                /\ pc' = "subs_returned"
           ELSE IF subtitles.unit.sub_template_url = None
           THEN /\ subtitles' = [subtitles EXCEPT !.filename = filename, !.log =
                                Append(@, LogEntry("no subtitles", subtitles.filename_prefix))]
                /\ pc' = "subs_returned"
           ELSE /\ subtitles' = [subtitles EXCEPT !.filename = filename]
                /\ pc' = "subs_listing"
    /\ UNCHANGED <<notSubsVars, fs, exc>>

\* lines 566-570: only HTTPError is caught
SubsListing ==
    /\ pc = "subs_listing"
    /\ \E a \in available_subs_answers :
          IF a.kind = "value"
          THEN /\ subtitles' = [subtitles EXCEPT !.listing = a.kind, !.available_subs = a.value,
                                       !.i = 1]
               /\ pc' = "subs_loop"
               /\ UNCHANGED exc
          ELSE IF a.kind = "HTTPError"
          THEN /\ subtitles' = [subtitles EXCEPT !.listing = a.kind, !.available_subs = <<"en">>,
                                       !.i = 1]
               /\ pc' = "subs_loop"
               /\ UNCHANGED exc
          ELSE /\ subtitles' = [subtitles EXCEPT !.listing = a.kind]
               /\ pc' = "subs_raised"
               /\ exc' = <<a.kind>>
    /\ UNCHANGED <<notSubsVars, fs>>

\* lines 572-583: one turn of the loop
SubsNextLanguage ==
    /\ pc = "subs_loop"
    /\ subtitles.i <= Len(subtitles.available_subs)
    /\ LET sub_lang == subtitles.available_subs[subtitles.i]
           sub_url == format_template(subtitles.unit.sub_template_url, sub_lang)
           subs_filename == subs_filename_of(subtitles.filename, sub_lang)
       IN  IF ~os_path_exists(fs, subs_filename)
           THEN \E a \in subtitle_answers :
                   LET subs_string == edx_get_subtitle(a, subtitles.python3)
                       asked == Append(subtitles.log, LogEntry("request", sub_url))
                   IN  IF subs_string.raised # "no"
                       THEN /\ subtitles' = [subtitles EXCEPT !.log = asked]
                            /\ pc' = "subs_raised"
                            /\ exc' = <<subs_string.raised>>
                            /\ UNCHANGED fs
                       ELSE IF subs_string.value # None
                       THEN /\ subtitles' = [subtitles EXCEPT
                                   !.log = Append(asked, LogEntry("writing", subs_filename)),
                                   !.written = Append(@, [run |-> subtitles.run,
                                                          name |-> subs_filename]),
                                   !.i = @ + 1]
                            /\ fs' = fs \cup {subs_filename}
                            /\ UNCHANGED <<pc, exc>>
                       ELSE /\ subtitles' = [subtitles EXCEPT !.log = asked, !.i = @ + 1]
                            /\ UNCHANGED <<pc, exc, fs>>
           ELSE /\ subtitles' = [subtitles EXCEPT
                               !.log = Append(@, LogEntry("skipping", subs_filename)),
                               !.i = @ + 1]
                /\ UNCHANGED <<pc, exc, fs>>
    /\ UNCHANGED notSubsVars

\* the loop of line 572 ends and the function returns
SubsLoopEnd ==
    /\ pc = "subs_loop"
    /\ subtitles.i > Len(subtitles.available_subs)
    /\ pc' = "subs_returned"
    /\ UNCHANGED <<notSubsVars, fs, subtitles, exc>>

\* the caller runs _download_subtitles again, with the same arguments
SubsRunAgain ==
    /\ pc \in {"subs_returned", "subs_raised"}
    /\ subtitles.run = 1
    /\ subtitles' = [subtitles EXCEPT !.run = 2, !.first_run = pc, !.filename = None,
                                 !.listing = "none", !.available_subs = <<>>,
                                 !.i = 0]
    /\ pc' = "subs_start"
    /\ exc' = None
    /\ UNCHANGED <<notSubsVars, fs>>

\* a Unit with a video and both subtitle URLs, and a Unit with a video only
SubsUnitSet ==
    {Unit(VideoA, make_available_subs_url(<<"/avail">>),
          make_sub_template_url(<<"/tr">>, IdA), <<>>, <<>>),
     Unit(VideoA, None, None, <<>>, <<>>)}

\* the directory before the first run: empty, or the video with any of the
\* subtitle files an earlier session left
InitSubtitles ==
    /\ pc = "subs_start"
    /\ \E u \in SubsUnitSet, p3 \in BOOLEAN :
          subtitles = [NoSub EXCEPT !.run = 1, !.python3 = p3, !.unit = u,
                               !.filename_prefix = "01"]
    /\ \E present \in SUBSET Langs :
          \/ fs = {} /\ present = {}
          \/ fs = {VideoFile}
                    \cup {subs_filename_of(splitext_root(VideoFile), l) : l \in present}
    /\ IdleExtract /\ IdleInput /\ IdlePool /\ IdleDownload /\ IdleExit /\ IdleRemote
    /\ selections = <<>> /\ all_units = <<>> /\ filtered_units = <<>>

NextSubtitles ==
    SubsStart \/ SubsListing \/ SubsNextLanguage \/ SubsLoopEnd \/ SubsRunAgain

SpecSubtitles == InitSubtitles /\ [][NextSubtitles]_vars

(***************************************************************************)
(* Claims about the subtitle downloader                                    *)
(***************************************************************************)
WrittenIn(run) == {w.name : w \in {x \in Range(subtitles.written) : x.run = run}}
SkippedIn(run) ==
    {e.name : e \in {x \in Range(subtitles.log) : x.run = run /\ x.kind = "skipping"}}

\* the second run has gone through its loop
SecondRunLooped ==
    subtitles.run = 2 /\ pc = "subs_returned" /\ subtitles.i > 0

\* C11: the second of two runs of _download_subtitles for the same Unit,
\* prefix and directory writes no subtitle file: for every available language
\* it finds the target file present, skips it and logs the skip.  (Stated for
\* the runs that follow a first run that returned.)
C11_SecondRunWritesNothing ==
    subtitles.first_run = "subs_returned" =>
    /\ WrittenIn(2) = {}
    /\ SecondRunLooped =>
          \A i \in DOMAIN subtitles.available_subs :
              subs_filename_of(subtitles.filename, subtitles.available_subs[i])
                  \in SkippedIn(2)

\* the turn of the loop that is about to run finds its target file present
TargetPresent ==
    /\ pc = "subs_loop"
    /\ subtitles.i <= Len(subtitles.available_subs)
    /\ subs_filename_of(subtitles.filename, subtitles.available_subs[subtitles.i]) \in fs

\* no file is written twice, and a file the first run wrote is still there
C11_State ==
    /\ WrittenIn(1) \cap WrittenIn(2) = {}
    /\ WrittenIn(1) \cup WrittenIn(2) \subseteq fs
    /\ Len(subtitles.written) = Cardinality(WrittenIn(1) \cup WrittenIn(2))

\* a write creates a file that was not there; a language whose target file is
\* there is skipped, with a logged skip, no request and no write
C11_Step ==
    /\ fs \subseteq fs'
    /\ Len(subtitles'.written) > Len(subtitles.written) =>
          /\ subtitles'.written[Len(subtitles'.written)].name \notin fs
          /\ fs' = fs \cup {subtitles'.written[Len(subtitles'.written)].name}
    /\ Len(subtitles'.written) = Len(subtitles.written) => fs' = fs
    /\ TargetPresent =>
          /\ subtitles'.written = subtitles.written
          /\ subtitles'.log =
                Append(subtitles.log,
                       LogEntry("skipping",
                                subs_filename_of(subtitles.filename,
                                                 subtitles.available_subs[subtitles.i])))

\* C11 (amended): no run of _download_subtitles overwrites a subtitle file;
\* a language whose target file exists, such as one the first run wrote, is
\* skipped with a logged skip; the second run writes only files that do not
\* exist yet.
C11_ExistingSubtitlesSkipped == []C11_State /\ [][C11_Step]_vars

\* the second run has skipped a file the first run wrote, and has written one
\* the first run did not
C11_Witness ==
    /\ SecondRunLooped
    /\ WrittenIn(1) \cap SkippedIn(2) # {}
    /\ WrittenIn(2) # {}

\* C12: a failure of the available-translations request, whatever its kind,
\* leaves the language list at the single language en and does not end
\* _download_subtitles with an exception.
C12_ListingFailureFallsBackToEn ==
    subtitles.listing \in {"HTTPError", "URLError", "ValueError"} =>
        /\ subtitles.available_subs = <<"en">>
        /\ ~(pc = "subs_raised" /\ subtitles.i = 0)

(***************************************************************************)
(* Claims about the barrier between extraction and download                *)
(***************************************************************************)
\* the mapping extract_all_units builds from the tasks as they are now
MappingOfTasks == dict_zip(all_urls, [i \in DOMAIN tasks |-> tasks[i].result.units])

Downloading == pc \in DownloadPcs \/ handed # <<>>

\* when download runs, or has been handed a Unit, every task of the batch has
\* ended and the mapping is the one built from all of them
C13_State ==
    Downloading =>
        /\ Len(tasks) = Len(all_urls)
        /\ \A i \in DOMAIN tasks : tasks[i].status = "done"
        /\ all_units = MappingOfTasks
        /\ Range(Keys(all_units)) = Range(all_urls)

\* no step taken while download runs changes the mapping or a task
C13_Step == Downloading => all_units' = all_units /\ tasks' = tasks /\ dl_units' = dl_units

\* C13: no Unit is dispatched to download before every fetch+extraction task
\* of the batch has ended and the mapping has been built from all of them,
\* and the mapping does not change once downloading has started.
C13_ExtractionBarrier == []C13_State /\ [][C13_Step]_vars

\* a Unit has been dispatched in a run that submitted two URLs
C13_Witness == handed # <<>> /\ Len(all_urls) >= 2

(***************************************************************************)
(* extract_all_units, lines 421-435, for more URLs than the pool has       *)
(* workers, against a server whose answer for each URL is fixed            *)
(***************************************************************************)
MaxExtraUrls == 1

\* the page of the n-th subsection: one Unit with one document
PoolPage(n) ==
    [blocks |-> <<[streams |-> None, sub |-> None, avail |-> None, mp4 |-> <<>>,
                   pdf |-> << <<"/doc", ToString(n), ".pdf">> >>]>>, embeds |-> <<>>]

InitPool ==
    /\ pc = "pool"
    /\ \E extra \in 1..MaxExtraUrls :
          LET n == POOL_WORKERS + extra
              urls == [i \in 1..n |-> SubSectionUrl(i)]
          IN  /\ all_urls = urls
              /\ tasks = [i \in 1..n |-> PendingTask(urls[i])]
              /\ \E failing \in {{}, {1}, {n}} :
                    remote = [i \in 1..n |->
                                 [key |-> urls[i],
                                  value |-> IF i \in failing THEN {FetchFailed}
                                            ELSE {Fetched(PoolPage(i))}]]
    /\ selections = <<>> /\ all_units = <<>> /\ filtered_units = <<>>
    /\ IdleExtract /\ IdleInput /\ IdleDownload /\ IdleExit /\ IdleSubs

NextPool ==
    \/ \E i \in DOMAIN tasks : TaskStart(i)
    \/ \E i \in DOMAIN tasks : TaskFinish(i)
    \/ PoolRaise
    \/ PoolReturn

SpecPool == InitPool /\ [][NextPool]_vars

(***************************************************************************)
(* Claims about the pool                                                   *)
(***************************************************************************)
TasksOf(url) == {t \in DOMAIN tasks : tasks[t].url = url}

\* at most POOL_WORKERS tasks run; every submitted URL has one task; a task
\* that has ended holds what the server answers for its own URL and what
\* extract_units makes of it; the mapping extract_all_units returns pairs
\* every URL with the result of its task
C14_State ==
    /\ Cardinality(Running) <= POOL_WORKERS
    /\ \A i \in DOMAIN all_urls : Cardinality(TasksOf(all_urls[i])) = 1
    /\ \A t \in DOMAIN tasks :
          tasks[t].status = "done" =>
              /\ tasks[t].fetched \in dict_get(remote, tasks[t].url, {})
              /\ tasks[t].result \in extract_units(tasks[t].fetched)
    /\ pc = "parse_units" =>
          /\ Len(all_units) = Len(all_urls)
          /\ \A e \in DOMAIN all_units :
                \E t \in TasksOf(all_units[e].key) :
                    /\ tasks[t].status = "done"
                    /\ all_units[e].value = tasks[t].result.units

\* a task is run once: it goes from pending to running to done, and what it
\* produced does not change
C14_Step ==
    \A t \in DOMAIN tasks :
        \/ tasks'[t] = tasks[t]
        \/ tasks[t].status = "pending" /\ tasks'[t].status = "running"
        \/ tasks[t].status = "running" /\ tasks'[t].status = "done"

\* C14: at every moment of extract_all_units at most 20 tasks are in
\* progress, every submitted URL is processed by exactly one task, and every
\* result is paired with the URL it was computed for, in whatever order the
\* tasks end.
C14_BoundedPool == []C14_State /\ [][C14_Step]_vars

\* every worker of the pool runs a task while a submitted URL still waits
C14_Witness ==
    /\ Cardinality(Running) = POOL_WORKERS
    /\ \E t \in DOMAIN tasks : tasks[t].status = "pending"

====
